---- MODULE Spec2Model ----
(***************************************************************************)
(* A model of tsClusters<float> (src/tsClusters/tsClusters.h), the k-means *)
(* engine, and of the convergence loop of src/tsClusters/test_harness.cpp. *)
(*                                                                         *)
(* The element type T is float, as the harness instantiates it.  A float   *)
(* is modelled exactly, as a pair <<n, d>>: the rational n/d in lowest     *)
(* terms with d > 0, <<0, 0>> for NaN and <<1, 0>> for                     *)
(* std::numeric_limits<float>::max().  The coordinates the callers pass    *)
(* are small non-negative integers, so every value the engine computes is  *)
(* an integer or a mean of a few integers, and rounding plays no part.     *)
(*                                                                         *)
(* Undefined behaviour (a read or a write outside an array, dereferencing  *)
(* end()) is a choice between the process ending (status = "crashed") and  *)
(* the call going on with the access having no visible effect or reading   *)
(* an arbitrary value.                                                     *)
(***************************************************************************)
EXTENDS Integers, Sequences, FiniteSets, TLC

\* ------------------------------------------------------------- bounds
\* Coordinates passed to fill_data_array are 0 or MaxVal.
MaxVal == 2
\* Strides passed to fill_data_array are drawn from 0..MaxStride.
MaxStride == 2
\* fill_data_array is called with at most MaxPoints * MaxStride values, and
\* only while the engine ends up with at most MaxPoints points.
MaxPoints == 2
\* initialize_clusters is called only while the engine ends up with at most
\* MaxCenters centers; set_number_of_clusters is called with 0..MaxCenters.
MaxCenters == 2
\* The driver gives up after MaxRounds rounds (the harness loops for ever).
MaxRounds == 5

\* --------------------------------------------------- program constants
\* std::numeric_limits<unsigned int>::max(), the initial data_points_moved:
\* all bits set, (unsigned)-1.
UIntMax == -1

VARIABLES
  data,                \* *data: the points, each [p, ci, distance_squared]
  clusters,            \* *clusters: the centers, each a sequence of floats
  stride,              \* stride
  number_of_clusters,  \* number_of_clusters
  data_points_moved,   \* data_points_moved
  status,              \* "ok", or "crashed" once undefined behaviour ended the process
  last,                \* the last call: its name, its result and what it evaluated
  pc,                  \* the driver's position in main (test_harness.cpp)
  round_counter,       \* main's round_counter
  start_clusters       \* the centers initialize_clusters gave the driver

vars == <<data, clusters, stride, number_of_clusters, data_points_moved,
          status, last, pc, round_counter, start_clusters>>

\* ------------------------------------------------------------- floats
NaN == <<0, 0>>
TMax == <<1, 0>>

RECURSIVE GCD(_, _)
GCD(a, b) == IF b = 0 THEN a ELSE GCD(b, a % b)

Abs(x) == IF x < 0 THEN 0 - x ELSE x

IsNaN(x) == x = NaN

\* n/d in lowest terms; x/0 only arises as 0/0 here.
Rat(n, d) ==
  IF d = 0 THEN NaN
  ELSE LET g == GCD(Abs(n), Abs(d))
           s == IF d < 0 THEN 0 - 1 ELSE 1
       IN  <<(s * n) \div g, (s * d) \div g>>

FromInt(v) == <<v, 1>>

FAdd(a, b) == IF a[2] = 0 \/ b[2] = 0 THEN NaN
              ELSE Rat(a[1] * b[2] + b[1] * a[2], a[2] * b[2])

FSub(a, b) == IF a[2] = 0 \/ b[2] = 0 THEN NaN
              ELSE Rat(a[1] * b[2] - b[1] * a[2], a[2] * b[2])

FMul(a, b) == IF a[2] = 0 \/ b[2] = 0 THEN NaN
              ELSE Rat(a[1] * b[1], a[2] * b[2])

\* a < b on floats: false when either is NaN; max() is above every other value.
FLt(a, b) ==
  IF IsNaN(a) \/ IsNaN(b) THEN FALSE
  ELSE IF a = TMax THEN FALSE
  ELSE IF b = TMax THEN TRUE
  ELSE a[1] * b[2] < b[1] * a[2]

\* accum[j] / data_point_counter: the unsigned count is converted to float;
\* 0/0 is NaN.
FDivCount(a, k) == IF a[2] = 0 THEN NaN ELSE Rat(a[1], a[2] * k)

\* ------------------------------------------------------------- inputs
Values == {0, MaxVal}
Strides == 0..MaxStride
RECURSIVE SeqsUpTo(_, _)
SeqsUpTo(S, n) ==
  IF n = 0 THEN {<<>>}
  ELSE LET shorter == SeqsUpTo(S, n - 1)
       IN  shorter \cup {Append(s, v) : s \in {t \in shorter : Len(t) = n - 1}, v \in S}
\* The arrays a caller passes, with input_size their length; <<>> stands for
\* a null pointer or a size of 0.
Inputs == SeqsUpTo(Values, MaxPoints * MaxStride)

\* What is recorded of a call: its name, what it returned, whether it accessed
\* an array out of bounds and whether it divided (or took fmod) by zero.
NoCall == [op |-> "none", ret |-> 0, oob |-> FALSE, div0 |-> FALSE]
Call(op) == [NoCall EXCEPT !.op = op]

\* ---------------------------------------------------- fill_data_array
\* input_data[i] (i counted from 0): past the array it reads whatever lies
\* there, garbage[k] for the k-th element past the end.
ReadInput(input, i, garbage) ==
  IF i < Len(input) THEN input[i + 1] ELSE garbage[i - Len(input) + 1]

\* The rows the loop of lines 188-202 appends, starting at input index i.
RECURSIVE FillRows(_, _, _, _)
FillRows(input, i, st, garbage) ==
  IF i >= Len(input) THEN <<>>
  ELSE <<[p |-> [k \in 1..st |-> ReadInput(input, i + k - 1, garbage)],
          ci |-> 0,
          distance_squared |-> TMax]>>
       \o FillRows(input, i + st, st, garbage)

\* Whether the loop reads input_data at an index >= input_size.
ReadsPastEnd(input, st) == st > 0 /\ Len(input) % st # 0

\* What the reads past the end can return: any values.
PastEnd(input, st) ==
  IF ReadsPastEnd(input, st) THEN [1..(st - (Len(input) % st)) -> Values] ELSE {<<>>}

\* The rows pushed before the first read past the end.
WholeRows(input, st) ==
  SubSeq(FillRows(input, 0, st, [k \in 1..st |-> 0]), 1, Len(input) \div st)

fill_data_array(input, input_stride) ==
  IF input = <<>> \/ input_stride = 0
  THEN /\ last' = [Call("load") EXCEPT !.ret = 0]
       /\ UNCHANGED <<data, clusters, stride, number_of_clusters,
                      data_points_moved, status>>
  ELSE /\ number_of_clusters' = input_stride
       /\ stride' = input_stride
       /\ \/ \E garbage \in PastEnd(input, input_stride) :
               LET filled == data \o FillRows(input, 0, input_stride, garbage)
               IN  /\ data' = filled
                   /\ status' = status
                   /\ last' = [Call("load") EXCEPT
                                 !.ret = Len(filled) * Len(filled[1].p),
                                 !.oob = ReadsPastEnd(input, input_stride)]
          \/ /\ ReadsPastEnd(input, input_stride)
             /\ data' = data \o WholeRows(input, input_stride)
             /\ status' = "crashed"
             /\ last' = [Call("load") EXCEPT !.oob = TRUE]
       /\ UNCHANGED <<clusters, data_points_moved>>

FillDataArray ==
  /\ status = "ok"
  /\ \E input \in Inputs, input_stride \in Strides :
       /\ (input_stride > 0 =>
             Len(data) + (Len(input) + input_stride - 1) \div input_stride <= MaxPoints)
       /\ fill_data_array(input, input_stride)
  /\ UNCHANGED <<pc, round_counter, start_clusters>>

\* ---------------------------------------------- set_number_of_clusters
set_number_of_clusters(input_number) ==
  /\ number_of_clusters' = (IF input_number # 0 THEN input_number ELSE number_of_clusters)
  /\ last' = Call("set")
  /\ UNCHANGED <<data, clusters, stride, data_points_moved, status>>

SetNumberOfClusters ==
  /\ status = "ok"
  /\ \E input_number \in 0..MaxCenters : set_number_of_clusters(input_number)
  /\ UNCHANGED <<pc, round_counter, start_clusters>>

\* ------------------------------------------------- initialize_clusters
\* std::numeric_limits<float>::min(), the smallest positive normal float (a
\* tag: only ever compared and subtracted in the bounds below).
TMin == <<1, -1>>

\* The coordinates in dimension j (from 1) of the points that have one, in order.
Column(points, j) ==
  LET has == SelectSeq(points, LAMBDA q : Len(q.p) >= j)
  IN  [n \in 1..Len(has) |-> has[n].p[j]]

\* ub[j] after the scan of lines 259-283: it starts at min(), which is above 0.
RECURSIVE UpperBound(_, _)
UpperBound(col, ub) ==
  IF col = <<>> THEN ub
  ELSE UpperBound(Tail(col),
                  IF (IF ub = TMin THEN Head(col) > 0 ELSE Head(col) > ub[1])
                  THEN FromInt(Head(col)) ELSE ub)

\* lb[j] after the scan: it starts at max().
RECURSIVE LowerBound(_, _)
LowerBound(col, lb) ==
  IF col = <<>> THEN lb
  ELSE LowerBound(Tail(col),
                  IF (IF lb = TMax THEN TRUE ELSE Head(col) < lb[1])
                  THEN FromInt(Head(col)) ELSE lb)

\* ub[idx_s] - lb[idx_s] in float arithmetic: min() is absorbed by any other
\* non-zero value.
BoundsRange(ub, lb) ==
  IF lb = TMax THEN TMax
  ELSE IF ub = TMin THEN (IF lb[1] = 0 THEN TMin ELSE FromInt(0 - lb[1]))
  ELSE FSub(ub, lb)

\* The values std::fmod(rand(), range) can take: rand() is any integer from 0
\* to RAND_MAX, which is above every range of the model.  fmod by 0 is NaN;
\* an integer is a whole multiple of min(), so fmod by min() is 0.
FmodRand(range) ==
  IF range = TMax THEN {TMax}
  ELSE IF range = TMin THEN {FromInt(0)}
  ELSE IF range[1] = 0 THEN {NaN}
  ELSE {FromInt(r) : r \in 0..(range[1] - 1)}

\* (T)(std::fmod(rand(), ub - lb)) + lb, every value it can take.
DrawSet(points, j) ==
  LET col == Column(points, j)
      lb == LowerBound(col, TMax)
      ub == UpperBound(col, TMin)
  IN  {IF f = TMax THEN TMax ELSE FAdd(f, lb) : f \in FmodRand(BoundsRange(ub, lb))}

\* Whether line 300 takes fmod by zero in some dimension.
FmodByZero(points, st) ==
  \E j \in 1..st :
    LET col == Column(points, j)
    IN  BoundsRange(UpperBound(col, TMin), LowerBound(col, TMax)) = FromInt(0)

\* The center points cp that lines 292-302 can build.
CenterPoints(points, st) ==
  {cp \in [1..st -> UNION {DrawSet(points, j) : j \in 1..st}] :
     \A j \in 1..st : cp[j] \in DrawSet(points, j)}

\* ub[i] and lb[i] are indexed by a point's own length: a point longer than
\* stride is compared with, and written, past both arrays.
BoundsOverrun(points, st) == \E n \in 1..Len(points) : Len(points[n].p) > st

initialize_clusters ==
  IF stride = 0 \/ number_of_clusters = 0
  THEN /\ last' = Call("init")
       /\ UNCHANGED <<data, clusters, stride, number_of_clusters,
                      data_points_moved, status>>
  ELSE /\ \/ \E fresh \in [1..number_of_clusters -> CenterPoints(data, stride)] :
               /\ clusters' = clusters \o fresh
               /\ status' = status
               /\ last' = [Call("init") EXCEPT
                             !.oob = BoundsOverrun(data, stride),
                             !.div0 = FmodByZero(data, stride)]
          \/ /\ BoundsOverrun(data, stride)
             /\ clusters' = clusters
             /\ status' = "crashed"
             /\ last' = [Call("init") EXCEPT !.oob = TRUE]
       /\ UNCHANGED <<data, stride, number_of_clusters, data_points_moved>>

InitializeClusters ==
  /\ status = "ok"
  /\ Len(clusters) + number_of_clusters <= MaxCenters
  /\ initialize_clusters
  /\ UNCHANGED <<pc, round_counter, start_clusters>>

\* -------------------------------------------- compute_squared_distance
\* The loop stops at the end of the shorter of the two points.
RECURSIVE SquaredDistanceFrom(_, _, _, _)
SquaredDistanceFrom(pointA, pointB, k, accum) ==
  IF k > Len(pointA) \/ k > Len(pointB) THEN accum
  ELSE LET diff == FSub(FromInt(pointA[k]), pointB[k])
       IN  SquaredDistanceFrom(pointA, pointB, k + 1, FAdd(accum, FMul(diff, diff)))

compute_squared_distance(pointA, pointB) ==
  SquaredDistanceFrom(pointA, pointB, 1, FromInt(0))

\* ----------------------------------------------------- assign_clusters
\* Closer with the index counted from 1: current_cluster_index incremented
\* before it is recorded.
CloserCountedFromOne(best, current_cluster_index, computed_distance) ==
  IF FLt(computed_distance, best.distance)
  THEN [index |-> current_cluster_index + 1, distance |-> computed_distance]
  ELSE best

\* Lines 379-383: the center at current_cluster_index replaces the closest so
\* far on a strictly smaller distance.
Closer(best, current_cluster_index, computed_distance) ==
  IF FLt(computed_distance, best.distance)
  THEN [index |-> current_cluster_index, distance |-> computed_distance]
  ELSE best

\* The loop over the centers (lines 362-387), from center k (from 1) on.
RECURSIVE ClosestFrom(_, _, _, _)
ClosestFrom(p, cs, k, best) ==
  IF k > Len(cs) THEN best
  ELSE ClosestFrom(p, cs, k + 1,
                   Closer(best, k - 1, compute_squared_distance(p, cs[k])))

\* Moved with the comparison made after the index is overwritten.
MovedAfterOverwrite(ci, closest_cluster_index) ==
  IF closest_cluster_index # closest_cluster_index THEN 1 ELSE 0

\* Lines 391-392: one more point moved when its index is not the closest one.
Moved(ci, closest_cluster_index) == IF ci # closest_cluster_index THEN 1 ELSE 0

\* The loop over the points (lines 356-398), from point n on.
\* closest_cluster_index is set once before the loop and not per point.
RECURSIVE AssignFrom(_, _, _, _, _)
AssignFrom(points, cs, n, closest_cluster_index, moved) ==
  IF n > Len(points) THEN [data |-> points, moved |-> moved]
  ELSE LET best == ClosestFrom(points[n].p, cs, 1,
                               [index |-> closest_cluster_index, distance |-> TMax])
       IN  AssignFrom([points EXCEPT ![n].ci = best.index,
                                     ![n].distance_squared = best.distance],
                      cs, n + 1, best.index,
                      moved + Moved(points[n].ci, best.index))

assign_clusters ==
  LET done == AssignFrom(data, clusters, 1, 0, 0)
  IN  /\ data' = done.data
      /\ data_points_moved' = done.moved
      /\ last' = Call("assign")
      /\ UNCHANGED <<clusters, stride, number_of_clusters, status>>

AssignClusters ==
  /\ status = "ok"
  /\ assign_clusters
  /\ UNCHANGED <<pc, round_counter, start_clusters>>

\* --------------------------------------------------- compute_centroids
\* The points assigned to cluster i (from 0), by position.
Members(points, i) == {n \in 1..Len(points) : points[n].ci = i}

RECURSIVE SumColumn(_, _)
SumColumn(col, accum) ==
  IF col = <<>> THEN accum ELSE SumColumn(Tail(col), FAdd(accum, FromInt(Head(col))))

\* accum[j] (j from 1, at most stride) after the loop of lines 421-435.
Accum(points, i, j) ==
  SumColumn(Column(SelectSeq(points, LAMBDA q : q.ci = i), j), FromInt(0))

\* Mean with the quotient truncated to a whole number, as an integer
\* accumulator would give.
MeanTruncated(accum, data_point_counter) ==
  IF accum[2] = 0 \/ data_point_counter = 0 THEN NaN
  ELSE FromInt(accum[1] \div (accum[2] * data_point_counter))

\* Line 454: the mean.
Mean(accum, data_point_counter) == FDivCount(accum, data_point_counter)

\* (delete on the array new[] made, line 459, frees it like delete[] in every
\* build for a float array and is left out.)
\* One pass of the outer loop (lines 413-461) for cluster i, from the state
\* acc = [clusters, oob, div0, crashed].  crash says whether undefined
\* behaviour ends the process; garbage is what accum[j] reads past the array.
CentroidOf(points, st, acc, i, crash, garbage) ==
  LET cl == acc.clusters
      count == Cardinality(Members(points, i))
      overrun == \E n \in Members(points, i) : Len(points[n].p) > st
      atEnd == i >= Len(cl)
      longCenter == ~atEnd /\ Len(cl[i + 1]) > st
      ub == overrun \/ atEnd \/ longCenter
  IN  IF acc.crashed THEN acc
      ELSE IF ub /\ crash THEN [acc EXCEPT !.oob = TRUE, !.crashed = TRUE]
      ELSE IF atEnd THEN [acc EXCEPT !.oob = TRUE]
      ELSE [clusters |-> [cl EXCEPT ![i + 1] =
                            [j \in 1..Len(cl[i + 1]) |->
                               IF j <= st THEN Mean(Accum(points, i, j), count)
                               ELSE garbage]],
            oob |-> acc.oob \/ ub,
            div0 |-> acc.div0 \/ (count = 0 /\ Len(cl[i + 1]) > 0),
            crashed |-> FALSE]

RECURSIVE CentroidsFrom(_, _, _, _, _, _, _)
CentroidsFrom(points, st, k, acc, i, crash, garbage) ==
  IF i >= k THEN acc
  ELSE CentroidsFrom(points, st, k, CentroidOf(points, st, acc, i, crash, garbage),
                     i + 1, crash, garbage)

Garbage == {FromInt(v) : v \in Values} \cup {NaN}

\* Whether the call runs into undefined behaviour at all.
CentroidsOverrun ==
  \/ number_of_clusters > Len(clusters)
  \/ \E n \in 1..Len(data) :
       data[n].ci < number_of_clusters /\ Len(data[n].p) > stride
  \/ \E i \in 1..Len(clusters) : i <= number_of_clusters /\ Len(clusters[i]) > stride

compute_centroids ==
  IF stride = 0 \/ number_of_clusters = 0
  THEN /\ last' = Call("compute")
       /\ UNCHANGED <<data, clusters, stride, number_of_clusters,
                      data_points_moved, status>>
  ELSE /\ \E crash \in BOOLEAN, garbage \in Garbage :
            /\ (crash \/ garbage # NaN => CentroidsOverrun)
            /\ LET done == CentroidsFrom(data, stride, number_of_clusters,
                                      [clusters |-> clusters, oob |-> FALSE,
                                       div0 |-> FALSE, crashed |-> FALSE],
                                      0, crash, garbage)
               IN  /\ clusters' = done.clusters
                   /\ status' = (IF done.crashed THEN "crashed" ELSE status)
                   /\ last' = [Call("compute") EXCEPT !.oob = done.oob, !.div0 = done.div0]
       /\ UNCHANGED <<data, stride, number_of_clusters, data_points_moved>>

ComputeCentroids ==
  /\ status = "ok"
  /\ compute_centroids
  /\ UNCHANGED <<pc, round_counter, start_clusters>>

Init ==
  /\ data = <<>>
  /\ clusters = <<>>
  /\ stride = 0
  /\ number_of_clusters = 0
  /\ data_points_moved = UIntMax
  /\ status = "ok"
  /\ last = NoCall
  /\ pc = "idle"
  /\ round_counter = 0
  /\ start_clusters = <<>>

Next ==
  \/ FillDataArray
  \/ SetNumberOfClusters
  \/ InitializeClusters
  \/ AssignClusters
  \/ ComputeCentroids

Spec == Init /\ [][Next]_vars

\* ------------------------------------------------- the driver (main)
\* The convergence scenario: the points (0,0), (0,1), (10,10), (10,11) as a
\* flat array of stride 2, and two clusters.
Scenario == [input |-> <<0, 0, 0, 1, 10, 10, 10, 11>>, stride |-> 2, clusters |-> 2]

ConvInit ==
  /\ data = <<>>
  /\ clusters = <<>>
  /\ stride = 0
  /\ number_of_clusters = 0
  /\ data_points_moved = UIntMax
  /\ status = "ok"
  /\ last = NoCall
  /\ pc = "load"
  /\ round_counter = 0
  /\ start_clusters = <<>>

DriverLoad ==
  /\ pc = "load"
  /\ fill_data_array(Scenario.input, Scenario.stride)
  /\ pc' = "set"
  /\ UNCHANGED <<round_counter, start_clusters>>

DriverSet ==
  /\ pc = "set"
  /\ set_number_of_clusters(Scenario.clusters)
  /\ pc' = "init"
  /\ UNCHANGED <<round_counter, start_clusters>>

DriverInitialize ==
  /\ pc = "init"
  /\ initialize_clusters
  /\ start_clusters' = clusters'
  /\ pc' = "assign"
  /\ UNCHANGED round_counter

\* Lines 51-53: round_counter++, assign_clusters().
DriverAssign ==
  /\ pc = "assign"
  /\ round_counter' = round_counter + 1
  /\ assign_clusters
  /\ pc' = "compute"
  /\ UNCHANGED start_clusters

\* Line 54.
DriverCompute ==
  /\ pc = "compute"
  /\ compute_centroids
  /\ pc' = "check"
  /\ UNCHANGED <<round_counter, start_clusters>>

\* Lines 55-59: the loop ends when no point moved.
DriverCheck ==
  /\ pc = "check"
  /\ IF data_points_moved = 0
     THEN pc' = "done"
     ELSE round_counter < MaxRounds /\ pc' = "assign"
  /\ UNCHANGED <<data, clusters, stride, number_of_clusters, data_points_moved,
                 status, last, round_counter, start_clusters>>

ConvNext ==
  \/ DriverLoad
  \/ DriverSet
  \/ DriverInitialize
  \/ DriverAssign
  \/ DriverCompute
  \/ DriverCheck

SpecConv == ConvInit /\ [][ConvNext]_vars

\* ============================================================ claims
\* What the statements below are measured against, written from the
\* definitions of the quantities and not from the code.

\* a <= b on floats.
FLe(a, b) == FLt(a, b) \/ (~IsNaN(a) /\ a = b)

\* The squared Euclidean distance of point p and center c.
RECURSIVE EuclidSqUpTo(_, _, _)
EuclidSqUpTo(p, c, d) ==
  IF d = 0 THEN FromInt(0)
  ELSE LET diff == FSub(FromInt(p[d]), c[d])
       IN  FAdd(EuclidSqUpTo(p, c, d - 1), FMul(diff, diff))
EuclidSq(p, c) == EuclidSqUpTo(p, c, IF Len(p) < Len(c) THEN Len(p) ELSE Len(c))

\* The sum of coordinate d over the points at the positions in S.
RECURSIVE CoordSum(_, _, _)
CoordSum(points, S, d) ==
  IF S = {} THEN 0
  ELSE LET n == CHOOSE m \in S : TRUE
       IN  (IF Len(points[n].p) >= d THEN points[n].p[d] ELSE 0)
           + CoordSum(points, S \ {n}, d)

\* The arithmetic mean of coordinate d over the points assigned to cluster i.
ClusterMean(points, i, d) ==
  Rat(CoordSum(points, Members(points, i), d), Cardinality(Members(points, i)))

\* The coordinates the loaded points have in dimension d.
CoordsIn(points, d) ==
  {points[n].p[d] : n \in {m \in 1..Len(points) : Len(points[m].p) >= d}}
MinOf(S) == CHOOSE x \in S : \A y \in S : x <= y
MaxOf(S) == CHOOSE x \in S : \A y \in S : x >= y

\* The points an input array holds, stride values each.
Slices(input, st) ==
  [i \in 1..(Len(input) \div st) |-> SubSeq(input, (i - 1) * st + 1, i * st)]

\* C1: a load with an empty input, a zero stride or a length that is no
\* multiple of the stride returns 0, reads no element past the input and
\* leaves the points, stride and number_of_clusters as they were.
C1_LoadRejectsInvalid ==
  [][\A input \in Inputs, st \in Strides :
       (/\ \/ input = <<>>
           \/ st = 0
           \/ Len(input) % st # 0
        /\ last'.op = "load"
        /\ fill_data_array(input, st))
       => /\ last'.ret = 0
          /\ ~last'.oob
          /\ status' = "ok"
          /\ data' = data
          /\ stride' = stride
          /\ number_of_clusters' = number_of_clusters]_vars

\* C2: after a load of a non-empty input whose length is a multiple of the
\* non-zero stride, whatever was loaded before, the engine holds exactly
\* length/stride points, point i being the i-th slice of the input with
\* cluster index 0, and the call returned length.
C2_LoadReplacesPoints ==
  [][\A input \in Inputs, st \in Strides :
       (/\ input # <<>>
        /\ st > 0
        /\ Len(input) % st = 0
        /\ last'.op = "load"
        /\ fill_data_array(input, st))
       => /\ Len(data') = Len(input) \div st
          /\ \A i \in 1..Len(data') :
               data'[i].p = Slices(input, st)[i] /\ data'[i].ci = 0
          /\ last'.ret = Len(input)]_vars

\* C3: after assign_clusters with at least one center, every point's index
\* is the lowest index of a center at the least squared distance, its stored
\* distance is the distance to that center, and neither coordinates nor
\* centers changed.
C3_AssignPicksNearest ==
  [][(last'.op = "assign" /\ Len(clusters) >= 1)
     => /\ clusters' = clusters
        /\ Len(data') = Len(data)
        /\ \A n \in 1..Len(data') :
             LET q == data'[n]
                 D(j) == EuclidSq(q.p, clusters'[j + 1])
             IN  /\ q.p = data[n].p
                 /\ q.ci < Len(clusters')
                 /\ \A k \in 0..(Len(clusters') - 1) : FLe(D(q.ci), D(k))
                 /\ \A k \in 0..(q.ci - 1) : FLt(D(q.ci), D(k))
                 /\ q.distance_squared = D(q.ci)]_vars

C5_CentroidIsMean ==
  [][last'.op = "compute"
     => /\ data' = data
        /\ \A i \in 0..(number_of_clusters - 1) :
             Members(data, i) # {}
             => /\ i < Len(clusters')
                /\ \A d \in 1..Len(clusters'[i + 1]) :
                     clusters'[i + 1][d] = ClusterMean(data, i, d)]_vars

\* C6: compute_centroids ends normally from every state, without dividing by
\* a zero count and without accessing a center (or an accumulator) outside
\* its collection, and leaves the number of centers unchanged.
C6_ComputeNeverFaults ==
  [][last'.op = "compute"
     => /\ status' = "ok"
        /\ ~last'.div0
        /\ ~last'.oob
        /\ Len(clusters') = Len(clusters)]_vars

\* C7: initialize_clusters with stride > 0 and number_of_clusters > 0 leaves
\* exactly number_of_clusters centers of stride coordinates each, however
\* often it was called before; otherwise it changes nothing.
C7_InitializeReplaces ==
  [][last'.op = "init"
     => IF stride > 0 /\ number_of_clusters > 0
        THEN /\ Len(clusters') = number_of_clusters
             /\ \A i \in 1..Len(clusters') : Len(clusters'[i]) = stride
        ELSE clusters' = clusters]_vars

\* C8: after initialize_clusters on loaded data, every coordinate of every
\* center lies between the least and the greatest coordinate of the points
\* in its dimension, and no fmod by zero was taken.
C8_InitializeWithinBounds ==
  (last.op = "init" /\ stride > 0 /\ number_of_clusters > 0)
  => /\ ~last.div0
     /\ \A i \in 1..Len(clusters) : \A d \in 1..Len(clusters[i]) :
          /\ CoordsIn(data, d) # {}
          /\ FLe(FromInt(MinOf(CoordsIn(data, d))), clusters[i][d])
          /\ FLe(clusters[i][d], FromInt(MaxOf(CoordsIn(data, d))))

\* The two centers c1, c2 split the scenario's points: c1 is strictly nearer
\* to both low points and c2 strictly nearer to both high points.
Splits(points, c1, c2) ==
  /\ \A n \in {1, 2} : FLt(EuclidSq(points[n].p, c1), EuclidSq(points[n].p, c2))
  /\ \A n \in {3, 4} : FLt(EuclidSq(points[n].p, c2), EuclidSq(points[n].p, c1))

Separating ==
  /\ Len(start_clusters) = 2
  /\ Len(data) = 4
  /\ \/ Splits(data, start_clusters[1], start_clusters[2])
     \/ Splits(data, start_clusters[2], start_clusters[1])

\* C9: in the scenario, from initial centers that split the low pair from the
\* high pair, the first round puts the low pair in one cluster and the high
\* pair in the other, the loop never starts a fourth round, it ends with no
\* point moved, and the centers are then (0, 1/2) and (10, 21/2).
C9_ScenarioConverges ==
  Separating
  => /\ round_counter <= 3
     /\ (pc \in {"check", "done"} \/ round_counter >= 2)
        => /\ data[1].ci = data[2].ci
           /\ data[3].ci = data[4].ci
           /\ data[1].ci # data[3].ci
     /\ (pc = "check" /\ round_counter = 3) => data_points_moved = 0
     /\ pc = "done"
        => /\ data_points_moved = 0
           /\ {clusters[i] : i \in 1..Len(clusters)}
                = {<<FromInt(0), Rat(1, 2)>>, <<FromInt(10), Rat(21, 2)>>}

\* The loop has ended from initial centers that split the pairs.
C9_Witness == Separating /\ pc = "done" /\ round_counter >= 2

\* C10 as stated: every point's cluster index is a valid index into the
\* center collection, in every reachable state.
C10_IndexAlwaysValid ==
  \A n \in 1..Len(data) : data[n].ci < Len(clusters)

\* C10 as amended: every point's cluster index is 0 or a valid index into the
\* center collection; it is valid whenever a center exists.
C10_IndexValidOrZero ==
  \A n \in 1..Len(data) : data[n].ci = 0 \/ data[n].ci < Len(clusters)

\* A point assigned to a center other than the first.
C10_Witness ==
  /\ Len(clusters) >= 2
  /\ \E n \in 1..Len(data) : data[n].ci = Len(clusters) - 1
====
